---- MODULE Spec2Model ----
(***************************************************************************)
(* Model of src/main.py: the Streamlit learning-path generator.  One       *)
(* action is one execution of main() (or, for the generate button, the     *)
(* part of it before and after the blocking model call).  The state is     *)
(* st.session_state, the Firestore collection, the cached Firestore        *)
(* client and what the main content area rendered last.                    *)
(***************************************************************************)
EXTENDS Integers, Sequences, FiniteSets

\* ------------------------------------------------------------------ bounds
MaxModules == 2
MaxStore == 1

\* ------------------------------------------------- program constants
SliderMin == 0
SliderMax == 100
SliderDefault == 0
InitialProgress == 0
Indent == 2

\* ------------------------------------------------------------ JSON values
\* Every Python value that flows through the handlers is a record tagged by t.
\* Every field has one type, so that any two values can be compared.
EmptyDict == <<>>
V(t, n, s, items, members) ==
    [t |-> t, n |-> n, s |-> s, items |-> items, members |-> members]
None == V("null", 0, "", <<>>, EmptyDict)
Num(n) == V("num", n, "", <<>>, EmptyDict)
Str(s) == V("str", 0, s, <<>>, EmptyDict)
Arr(items) == V("arr", 0, "", items, EmptyDict)
Obj(members) == V("obj", 0, "", <<>>, members)
\* firestore.SERVER_TIMESTAMP: a sentinel object, not a JSON type
SERVER_TIMESTAMP == V("sentinel", 0, "", <<>>, EmptyDict)
\* the timestamp the server puts in place of the sentinel
Timestamp(n) == V("timestamp", n, "", <<>>, EmptyDict)

SetItem(d, key, val) == [k \in (DOMAIN d) \cup {key} |-> IF k = key THEN val ELSE d[k]]
HasKey(val, key) == val.t = "obj" /\ key \in DOMAIN val.members

\* Python truth value of a JSON value ("if learning_path:")
Truthy(val) ==
    CASE val.t = "null" -> FALSE
      [] val.t = "num" -> val.n # 0
      [] val.t = "str" -> val.s # ""
      [] val.t = "arr" -> Len(val.items) > 0
      [] val.t = "obj" -> DOMAIN val.members # {}
      [] OTHER -> TRUE

\* ------------------------------------------------------------ JSON text
\* A text is a sequence of tokens [k, n, s].
Tok(k, n, s) == [k |-> k, n |-> n, s |-> s]
WS(n) == Tok("ws", n, "")
LBrace == Tok("lbrace", 0, "")
RBrace == Tok("rbrace", 0, "")
LBracket == Tok("lbracket", 0, "")
RBracket == Tok("rbracket", 0, "")
Key(name) == Tok("key", 0, name)
NullTok == Tok("null", 0, "")
NumTok(n) == Tok("num", n, "")
StrTok(s) == Tok("str", 0, s)
\* text that is no JSON ("Sure! ...")
Prose == Tok("prose", 0, "")

\* the order in which the keys of a curriculum are inserted: the response's
\* keys in the order of the prompt's format, then the lifecycle keys
FieldOrder == <<"title", "duration", "totalHours", "modules",
                "userId", "generated", "status", "progress">>

RECURSIVE DumpValue(_, _), DumpItems(_, _, _), DumpMembers(_, _, _)
\* json.dumps(val, indent=2): [ok, toks]; ok is FALSE for the TypeError that
\* json raises on an object of a type it cannot serialize
DumpValue(val, depth) ==
    CASE val.t = "null" -> [ok |-> TRUE, toks |-> <<NullTok>>]
      [] val.t = "num" -> [ok |-> TRUE, toks |-> <<NumTok(val.n)>>]
      [] val.t = "str" -> [ok |-> TRUE, toks |-> <<StrTok(val.s)>>]
      [] val.t = "arr" ->
            IF Len(val.items) = 0 THEN [ok |-> TRUE, toks |-> <<LBracket, RBracket>>]
            ELSE LET r == DumpItems(val.items, 1, depth + 1)
                 IN [ok |-> r.ok,
                     toks |-> <<LBracket>> \o r.toks \o <<WS(depth * Indent), RBracket>>]
      [] val.t = "obj" ->
            IF DOMAIN val.members = {} THEN [ok |-> TRUE, toks |-> <<LBrace, RBrace>>]
            ELSE LET r == DumpMembers(val.members, 1, depth + 1)
                 IN [ok |-> r.ok,
                     toks |-> <<LBrace>> \o r.toks \o <<WS(depth * Indent), RBrace>>]
      [] OTHER -> [ok |-> FALSE, toks |-> <<>>]
DumpItems(items, i, depth) ==
    IF i > Len(items) THEN [ok |-> TRUE, toks |-> <<>>]
    ELSE LET head == DumpValue(items[i], depth)
             rest == DumpItems(items, i + 1, depth)
         IN [ok |-> head.ok /\ rest.ok,
             toks |-> <<WS(depth * Indent)>> \o head.toks \o rest.toks]
DumpMembers(d, i, depth) ==
    IF i > Len(FieldOrder) THEN [ok |-> TRUE, toks |-> <<>>]
    ELSE IF FieldOrder[i] \notin DOMAIN d THEN DumpMembers(d, i + 1, depth)
    ELSE LET head == DumpValue(d[FieldOrder[i]], depth)
             rest == DumpMembers(d, i + 1, depth)
         IN [ok |-> head.ok /\ rest.ok,
             toks |-> <<WS(depth * Indent), Key(FieldOrder[i])>> \o head.toks \o rest.toks]
JsonDumps(val) == DumpValue(val, 0)

\* str.strip(): drop the leading and trailing whitespace
RECURSIVE LStrip(_), RStrip(_)
LStrip(text) ==
    IF Len(text) > 0 /\ text[1].k = "ws" THEN LStrip(Tail(text)) ELSE text
RStrip(text) ==
    IF Len(text) > 0 /\ text[Len(text)].k = "ws"
    THEN RStrip(SubSeq(text, 1, Len(text) - 1)) ELSE text
Strip(text) == RStrip(LStrip(text))

RECURSIVE SkipWs(_, _)
SkipWs(toks, i) ==
    IF i <= Len(toks) /\ toks[i].k = "ws" THEN SkipWs(toks, i + 1) ELSE i

ParseFail == [ok |-> FALSE, val |-> None, next |-> 0]
RECURSIVE ParseValue(_, _), ParseItems(_, _, _), ParseMembers(_, _, _)
ParseValue(toks, i) ==
    LET j == SkipWs(toks, i)
    IN IF j > Len(toks) THEN ParseFail
       ELSE CASE toks[j].k = "null" -> [ok |-> TRUE, val |-> None, next |-> j + 1]
              [] toks[j].k = "num" -> [ok |-> TRUE, val |-> Num(toks[j].n), next |-> j + 1]
              [] toks[j].k = "str" -> [ok |-> TRUE, val |-> Str(toks[j].s), next |-> j + 1]
              [] toks[j].k = "lbracket" -> ParseItems(toks, j + 1, <<>>)
              [] toks[j].k = "lbrace" -> ParseMembers(toks, j + 1, EmptyDict)
              [] OTHER -> ParseFail
ParseItems(toks, i, acc) ==
    LET j == SkipWs(toks, i)
    IN IF j > Len(toks) THEN ParseFail
       ELSE IF toks[j].k = "rbracket"
            THEN [ok |-> TRUE, val |-> Arr(acc), next |-> j + 1]
       ELSE LET r == ParseValue(toks, j)
            IN IF r.ok THEN ParseItems(toks, r.next, Append(acc, r.val)) ELSE ParseFail
ParseMembers(toks, i, acc) ==
    LET j == SkipWs(toks, i)
    IN IF j > Len(toks) THEN ParseFail
       ELSE IF toks[j].k = "rbrace"
            THEN [ok |-> TRUE, val |-> Obj(acc), next |-> j + 1]
       ELSE IF toks[j].k = "key"
            THEN LET r == ParseValue(toks, j + 1)
                 IN IF r.ok THEN ParseMembers(toks, r.next, SetItem(acc, toks[j].s, r.val))
                    ELSE ParseFail
       ELSE ParseFail
\* json.loads(text): [ok, val]; ok is FALSE for json.JSONDecodeError
JsonLoads(text) ==
    LET r == ParseValue(text, 1)
    IN IF r.ok /\ SkipWs(text, r.next) > Len(text)
       THEN [ok |-> TRUE, val |-> r.val]
       ELSE [ok |-> FALSE, val |-> None]


\* ------------------------------------------------------------ the inputs
\* Values the "User ID" text input returns (line 143).  The value is an input
\* of every run: the user can edit it, and its default is computed anew from
\* the clock each time main() runs.
UserIds == {"u1", "u2"}

\* the skill and goal check boxes of the sidebar (two skills and one goal are modelled)
SkillLabels == <<"Python", "UI/UX Design">>
GoalLabels == <<"Become Data Scientist">>
\* label.lower().replace("/", "-").replace(" ", "-")
SkillKey(label) ==
    CASE label = "Python" -> "python"
      [] label = "UI/UX Design" -> "ui-ux-design"
\* label.lower().replace(" ", "-")
GoalKey(label) ==
    CASE label = "Become Data Scientist" -> "become-data-scientist"

RECURSIVE CheckedKeys(_, _, _)
\* the list the loops of lines 178-185 and 218-222 build from the checked boxes
CheckedKeys(labels, checked, i) ==
    IF i > Len(labels) THEN <<>>
    ELSE IF labels[i] \in checked
         THEN <<labels[i]>> \o CheckedKeys(labels, checked, i + 1)
         ELSE CheckedKeys(labels, checked, i + 1)
CurrentSkills(checked) ==
    LET l == CheckedKeys(SkillLabels, checked, 1) IN [i \in 1..Len(l) |-> SkillKey(l[i])]
Goals(checked) ==
    LET l == CheckedKeys(GoalLabels, checked, 1) IN [i \in 1..Len(l) |-> GoalKey(l[i])]
SkillBoxes == SUBSET {SkillLabels[i] : i \in 1..Len(SkillLabels)}
GoalBoxes == SUBSET {GoalLabels[i] : i \in 1..Len(GoalLabels)}

\* a module and a curriculum in the format the prompt asks for (lines 79-116)
Module(i) == Obj(SetItem(SetItem(EmptyDict, "title", Str("Module Name")), "duration", Num(i)))
Curriculum(title, k) ==
    Obj(SetItem(SetItem(SetItem(EmptyDict, "title", Str(title)), "totalHours", Num(120)),
                "modules", Arr([i \in 1..k |-> Module(i)])))
NoModulesDoc == Obj(SetItem(EmptyDict, "title", Str("X")))

\* what model.generate_content does: raise, or return a response text: a
\* curriculum in the format asked for, an object without `modules`, the same
\* after a prose prefix, a truncated text, and the JSON text null
Raised == [raises |-> TRUE, text |-> <<>>]
Response(text) == [raises |-> FALSE, text |-> text]
CurriculumText(k) == <<WS(1)>> \o JsonDumps(Curriculum("Path", k)).toks \o <<WS(1)>>
ModelOutputs ==
    {Raised}
    \cup {Response(CurriculumText(MaxModules)),
          Response(JsonDumps(NoModulesDoc).toks),
          Response(<<Prose>> \o JsonDumps(NoModulesDoc).toks),
          Response(SubSeq(CurriculumText(MaxModules), 1, 4)),
          Response(<<NullTok>>)}

\* the positions a slider is moved to
SliderValues == {SliderMin, SliderMax}


\* ------------------------------------------------------------ the state
VARIABLES
    pc,               \* "idle": no run of main() is executing; "calling": a run
                      \* is blocked in model.generate_content (line 127);
                      \* "rerun": st.rerun() has been called, main() restarts
    user_id,          \* user_id of the current (or last) run (line 143)
    inflight,         \* the model calls that have not returned
    model_output,     \* what the model call of the current run did (line 127)
    paths,            \* st.session_state[f'path_{user_id}'], None when absent
    show_path,        \* st.session_state.get('show_path')
    progress_module,  \* st.session_state[f'progress_module_{i}'] (the sliders)
    store,            \* the documents of the collection 'learning_paths'
    firestore_cache,  \* what st.cache_resource holds for init_firestore
    displayed,        \* what the last run put in the main content area
    download,         \* the data of the last download button
    clicked,          \* the button whose handler the last run executed
    sidebar           \* the sidebar's widgets and what the last run built from
                      \* them (lines 175-231); followed run by run in
                      \* SidebarSpec, while Spec draws the boxes as inputs of
                      \* the generate button's run

vars == <<pc, user_id, inflight, model_output, paths, show_path, progress_module,
          store, firestore_cache, displayed, download, clicked, sidebar>>

ModuleIndexes == 1..MaxModules
\* a pressed button, the module it belongs to, and for the generate button the
\* lists the sidebar had built (lines 175-222)
Click(button, i) == [button |-> button, module |-> i, current_skills |-> <<>>, goals |-> <<>>]
GenerateClicked(current_skills, goals) ==
    [button |-> "generate", module |-> 0, current_skills |-> current_skills, goals |-> goals]
NoClick == Click("none", 0)
NoDownload == [made |-> FALSE, ok |-> FALSE, toks |-> <<>>]
NoOutput == [raises |-> FALSE, text |-> <<>>]

\* ------------------------------------------------------------ the sidebar
\* the options of the level slider (line 191) and its default (line 192)
LevelOptions == {"Beginner", "Intermediate", "Advanced"}
DefaultLevel == "Intermediate"
\* option.lower() (line 195)
LevelKey(option) ==
    CASE option = "Beginner" -> "beginner"
      [] option = "Intermediate" -> "intermediate"
      [] option = "Advanced" -> "advanced"
\* the options of the learning style select box (lines 229-230); the first
\* is the one selected at the start
LearningStyles == <<"Hands-on Projects", "Theoretical Study", "Mixed Approach",
                    "Video Tutorials", "Reading & Documentation", "Interactive Coding">>
\* option.lower().replace(" ", "-") (line 231)
LearningStyleKey(option) ==
    CASE option = "Hands-on Projects" -> "hands-on-projects"
      [] option = "Theoretical Study" -> "theoretical-study"
      [] option = "Mixed Approach" -> "mixed-approach"
      [] option = "Video Tutorials" -> "video-tutorials"
      [] option = "Reading & Documentation" -> "reading-&-documentation"
      [] option = "Interactive Coding" -> "interactive-coding"

InList(x, list) == \E n \in 1..Len(list) : list[n] = x
LevelShownAlways(skill_key, current_skills) == TRUE
\* "if skill.lower()... in current_skills" (line 187): the level slider of a
\* skill is drawn, and its level recorded, when its key is in the list
LevelShown(skill_key, current_skills) == InList(skill_key, current_skills)

RECURSIVE SkillLoop(_, _, _, _, _)
\* the loop of lines 178-195 from skill i on: [current_skills, skill_levels]
SkillLoop(i, boxes, levels, current_skills, skill_levels) ==
    IF i > Len(SkillLabels)
    THEN [current_skills |-> current_skills, skill_levels |-> skill_levels]
    ELSE LET skill == SkillLabels[i]
             cs == IF skill \in boxes
                   THEN Append(current_skills, SkillKey(skill)) ELSE current_skills
             sl == IF LevelShown(SkillKey(skill), cs)
                   THEN SetItem(skill_levels, SkillKey(skill), LevelKey(levels[skill]))
                   ELSE skill_levels
         IN SkillLoop(i + 1, boxes, levels, cs, sl)

\* the sidebar of one run (lines 175-231): the widgets' values and the
\* lists, the mapping and the style built from them
SidebarOf(boxes, levels, goal_boxes, style) ==
    LET built == SkillLoop(1, boxes, levels, <<>>, EmptyDict)
    IN [skill_boxes |-> boxes,
        level_sliders |-> levels,
        goal_boxes |-> goal_boxes,
        style_option |-> style,
        current_skills |-> built.current_skills,
        skill_levels |-> built.skill_levels,
        goals |-> Goals(goal_boxes),
        learning_style |-> LearningStyleKey(style)]
\* A level slider that the run did not draw either keeps its widget state
\* or restarts from the default (the widget state's lifetime is the
\* framework's).
LevelsAfter(levels, boxes, kept) ==
    LET built == SkillLoop(1, boxes, levels, <<>>, EmptyDict)
    IN [label \in DOMAIN levels |->
          IF LevelShown(SkillKey(label), built.current_skills) \/ kept
          THEN levels[label] ELSE DefaultLevel]
\* profile_data (lines 249-257) of a sidebar
profile_data(sb) ==
    [currentSkills |-> sb.current_skills,
     skillLevels |-> sb.skill_levels,
     goals |-> sb.goals,
     learningStyle |-> sb.learning_style]
InitialSidebar ==
    SidebarOf({}, [label \in {SkillLabels[n] : n \in 1..Len(SkillLabels)} |-> DefaultLevel],
              {}, LearningStyles[1])

\* ------------------------------------------------------------ the handlers
generate_learning_path_ai_fallback(out) ==
    IF out.raises THEN Curriculum("Fallback", 1)
    ELSE LET r == JsonLoads(Strip(out.text))
         IN IF r.ok THEN r.val ELSE Curriculum("Fallback", 1)
\* generate_learning_path_ai (lines 126-131): the parsed response, or None
\* when the call or the parse raises
generate_learning_path_ai(out) ==
    IF out.raises THEN None
    ELSE LET r == JsonLoads(Strip(out.text))
         IN IF r.ok THEN r.val ELSE None

\* "if current_skills and goals" (line 247)
ProfileCompleteEither(current_skills, goals) == Len(current_skills) > 0 \/ Len(goals) > 0
ProfileComplete(current_skills, goals) == Len(current_skills) > 0 /\ Len(goals) > 0

PathKeyShared(u) == "u1"
\* f'path_{user_id}': the session key of a user id's curriculum
PathKey(u) == u

\* lines 267-270: the lifecycle fields, set on the dict the session keeps too
WithLifecycle(lp, u) ==
    Obj(SetItem(SetItem(SetItem(SetItem(lp.members,
        "userId", Str(u)), "generated", SERVER_TIMESTAMP),
        "status", Str("active")), "progress", Num(InitialProgress)))
\* the document the server keeps: the sentinel becomes the write's timestamp
StoredDocument(doc, n) == Obj(SetItem(doc.members, "generated", Timestamp(n)))

\* init_firestore under st.cache_resource (lines 59-65): the first call
\* decides, every later call returns the cached client or the cached None
init_firestore(cache, available) ==
    IF cache = "unset" THEN (IF available THEN "client" ELSE "none") ELSE cache

\* lines 275-276, 282-283 and 286-287: the session after each of the three
\* outcomes of the save
OnStored(ps, u, lp) == [paths |-> [ps EXCEPT ![PathKey(u)] = lp], show_path |-> TRUE]
OnStoreFailureDiscard(ps, u, lp) == [paths |-> ps, show_path |-> show_path]
OnStoreFailure(ps, u, lp) == [paths |-> [ps EXCEPT ![PathKey(u)] = lp], show_path |-> TRUE]
OnNoClient(ps, u, lp) == [paths |-> [ps EXCEPT ![PathKey(u)] = lp], show_path |-> TRUE]

\* display_learning_path (lines 364-490) up to the action buttons: the keys
\* it subscripts must be there, or the run ends in an exception
ModuleShown(m) == HasKey(m, "title") /\ HasKey(m, "duration")
display_learning_path(path) ==
    IF /\ HasKey(path, "title")
       /\ HasKey(path, "modules")
       /\ path.members["modules"].t = "arr"
       /\ \A i \in 1..Len(path.members["modules"].items) :
             ModuleShown(path.members["modules"].items[i])
    THEN [screen |-> "path", path |-> path]
    ELSE [screen |-> "exception", path |-> path]
Welcome == [screen |-> "welcome", path |-> None]

\* the main content area (lines 293-297) in a run under user id u
MainArea(u, ps, show) ==
    IF show /\ Truthy(ps[PathKey(u)]) THEN display_learning_path(ps[PathKey(u)])
    ELSE Welcome

\* the sliders a rendered page holds (lines 398, 414-419)
ModuleCount(d) ==
    IF d.screen = "path" THEN Len(d.path.members["modules"].items) ELSE 0
\* The sliders after a run: one that the run rendered keeps its value; one
\* that it did not render either keeps its widget state or restarts from the
\* default of line 416 (the widget state's lifetime is the framework's).
SlidersAfter(pm, d, kept) ==
    [i \in ModuleIndexes |-> IF i <= ModuleCount(d) \/ kept THEN pm[i] ELSE SliderDefault]

\* lines 421-422: the handler of "Mark Complete" on module i shows a message
ProgressAfterCompleteAll(pm, i) == [j \in ModuleIndexes |-> SliderMax]
ProgressAfterComplete(pm, i) == pm
PathsAfterComplete(ps, i) == ps
StoreAfterComplete(st, i) == st

\* lines 474-480: the data of the download button
ExportData(path) ==
    LET r == JsonDumps(path) IN [made |-> TRUE, ok |-> r.ok, toks |-> r.toks]

\* lines 483-486: "Generate New Path" deletes the show_path flag
PathsAfterNewPath(ps, u) == ps
ShowAfterNewPath(show) == FALSE

\* a run starts only when no run of the session is executing: the script of a
\* session runs in one thread, and the model call blocks it (lines 126-128)
ScriptFreeOrBlocked == pc \in {"idle", "calling"}
ScriptFree == pc = "idle"

\* ------------------------------------------------------------ the actions
Init ==
    /\ pc = "idle"
    /\ user_id \in UserIds
    /\ inflight = 0
    /\ model_output = NoOutput
    /\ paths = [u \in UserIds |-> None]
    /\ show_path = FALSE
    /\ progress_module = [i \in ModuleIndexes |-> SliderDefault]
    /\ store = <<>>
    /\ firestore_cache = "unset"
    /\ displayed = Welcome
    /\ download = NoDownload
    /\ clicked = NoClick
    /\ sidebar = InitialSidebar

\* A run with no button pressed: the user edited the User ID or another
\* sidebar widget.
EditSidebar(u, kept) ==
    /\ ScriptFree
    /\ LET d == MainArea(u, paths, show_path)
       IN /\ displayed' = d
          /\ progress_module' = SlidersAfter(progress_module, d, kept)
    /\ user_id' = u
    /\ clicked' = NoClick
    /\ download' = NoDownload
    /\ model_output' = NoOutput
    /\ UNCHANGED <<pc, inflight, paths, show_path, store, firestore_cache, sidebar>>

\* The run that st.rerun() starts.
Rerun(u, kept) ==
    /\ pc = "rerun"
    /\ LET d == MainArea(u, paths, show_path)
       IN /\ displayed' = d
          /\ progress_module' = SlidersAfter(progress_module, d, kept)
    /\ pc' = "idle"
    /\ user_id' = u
    /\ clicked' = NoClick
    /\ download' = NoDownload
    /\ model_output' = NoOutput
    /\ UNCHANGED <<inflight, paths, show_path, store, firestore_cache, sidebar>>

\* "Generate My Learning Path" pressed (lines 246-260): with a complete
\* profile the run calls the model and blocks; otherwise it shows the error of
\* line 290 and goes on to the main content area.
GenerateClick(u, skill_boxes, goal_boxes) ==
    /\ ScriptFree
    /\ user_id' = u
    /\ clicked' = GenerateClicked(CurrentSkills(skill_boxes), Goals(goal_boxes))
    /\ download' = NoDownload
    /\ IF ProfileComplete(CurrentSkills(skill_boxes), Goals(goal_boxes))
       THEN /\ pc' = "calling"
            /\ inflight' = inflight + 1
            /\ UNCHANGED <<displayed, progress_module>>
       ELSE /\ LET d == MainArea(u, paths, show_path)
               IN /\ displayed' = d
                  /\ \E kept \in BOOLEAN :
                        progress_module' = SlidersAfter(progress_module, d, kept)
            /\ UNCHANGED <<pc, inflight>>
    /\ model_output' = NoOutput
    /\ UNCHANGED <<paths, show_path, store, firestore_cache, sidebar>>

\* The model call returns or raises and the run goes on (lines 127-131 and
\* 262-297).
GenerateReturn(out) ==
    /\ pc = "calling"
    /\ inflight' = inflight - 1
    /\ model_output' = out
    /\ \E available \in (IF firestore_cache = "unset" THEN BOOLEAN ELSE {TRUE}) :
       LET learning_path == generate_learning_path_ai(out)
           db == init_firestore(firestore_cache, available)
       IN IF Truthy(learning_path)
          THEN /\ firestore_cache' = db
               /\ pc' = "rerun"
               /\ UNCHANGED <<displayed, progress_module>>
               /\ IF db = "client"
                  THEN IF learning_path.t # "obj"
                       THEN \* a response that is no JSON object: line 267 raises
                            \* TypeError, which the except branch catches
                            LET s == OnStoreFailure(paths, user_id, learning_path)
                            IN /\ paths' = s.paths
                               /\ show_path' = s.show_path
                               /\ store' = store
                       ELSE LET doc == WithLifecycle(learning_path, user_id)
                            IN \/ \* path_ref.set succeeds
                                  LET s == OnStored(paths, user_id, doc)
                                  IN /\ Len(store) < MaxStore
                                     /\ store' = Append(store, StoredDocument(doc, Len(store) + 1))
                                     /\ paths' = s.paths
                                     /\ show_path' = s.show_path
                               \/ \* the write raises
                                  LET s == OnStoreFailure(paths, user_id, doc)
                                  IN /\ paths' = s.paths
                                     /\ show_path' = s.show_path
                                     /\ store' = store
                  ELSE LET s == OnNoClient(paths, user_id, learning_path)
                       IN /\ paths' = s.paths
                          /\ show_path' = s.show_path
                          /\ store' = store
          ELSE /\ pc' = "idle"
               /\ LET d == MainArea(user_id, paths, show_path)
                  IN /\ displayed' = d
                     /\ \E kept \in BOOLEAN :
                           progress_module' = SlidersAfter(progress_module, d, kept)
               /\ UNCHANGED <<paths, show_path, store, firestore_cache>>
    /\ UNCHANGED <<user_id, download, clicked, sidebar>>

\* The slider of module i moved to p (lines 414-419).
SetProgress(u, i, p, kept) ==
    /\ ScriptFree
    /\ i <= ModuleCount(displayed)
    /\ LET d == MainArea(u, paths, show_path)
           moved == IF i <= ModuleCount(d)
                    THEN [progress_module EXCEPT ![i] = p] ELSE progress_module
       IN /\ displayed' = d
          /\ progress_module' = SlidersAfter(moved, d, kept)
          /\ clicked' = IF i <= ModuleCount(d) THEN Click("slider", i) ELSE NoClick
    /\ user_id' = u
    /\ download' = NoDownload
    /\ model_output' = NoOutput
    /\ UNCHANGED <<pc, inflight, paths, show_path, store, firestore_cache, sidebar>>

\* "Mark Complete" of module i pressed (lines 421-422).
MarkComplete(u, i, kept) ==
    /\ ScriptFree
    /\ i <= ModuleCount(displayed)
    /\ LET d == MainArea(u, paths, show_path)
           hit == i <= ModuleCount(d)
       IN /\ displayed' = d
          /\ clicked' = IF hit THEN Click("complete", i) ELSE NoClick
          /\ progress_module' =
                SlidersAfter(IF hit THEN ProgressAfterComplete(progress_module, i)
                             ELSE progress_module, d, kept)
          /\ paths' = IF hit THEN PathsAfterComplete(paths, i) ELSE paths
          /\ store' = IF hit THEN StoreAfterComplete(store, i) ELSE store
    /\ user_id' = u
    /\ download' = NoDownload
    /\ model_output' = NoOutput
    /\ UNCHANGED <<pc, inflight, show_path, firestore_cache, sidebar>>

\* "Download Path (JSON)" pressed (lines 473-480): json.dumps of the path; a
\* TypeError ends the run before the other action buttons are drawn.
Download(u, kept) ==
    /\ ScriptFree
    /\ displayed.screen = "path"
    /\ LET d == MainArea(u, paths, show_path)
           data == IF d.screen = "path" THEN ExportData(d.path) ELSE NoDownload
       IN /\ download' = data
          /\ displayed' = IF data.made /\ ~data.ok
                          THEN [screen |-> "exception", path |-> d.path] ELSE d
          /\ clicked' = IF d.screen = "path" THEN Click("download", 0) ELSE NoClick
          /\ progress_module' = SlidersAfter(progress_module, d, kept)
    /\ user_id' = u
    /\ model_output' = NoOutput
    /\ UNCHANGED <<pc, inflight, paths, show_path, store, firestore_cache, sidebar>>

\* "Generate New Path" pressed (lines 482-486).
GenerateNewPath(u, kept) ==
    /\ ScriptFree
    /\ displayed.screen = "path"
    /\ LET d == MainArea(u, paths, show_path)
       IN IF d.screen = "path"
          THEN /\ show_path' = ShowAfterNewPath(show_path)
               /\ paths' = PathsAfterNewPath(paths, u)
               /\ pc' = "rerun"
               /\ clicked' = Click("new_path", 0)
               /\ UNCHANGED <<displayed, progress_module>>
          ELSE /\ displayed' = d
               /\ progress_module' = SlidersAfter(progress_module, d, kept)
               /\ clicked' = NoClick
               /\ UNCHANGED <<show_path, paths, pc>>
    /\ user_id' = u
    /\ download' = NoDownload
    /\ model_output' = NoOutput
    /\ UNCHANGED <<inflight, store, firestore_cache, sidebar>>

Next ==
    \/ \E u \in UserIds, kept \in BOOLEAN : EditSidebar(u, kept)
    \/ \E u \in UserIds, kept \in BOOLEAN : Rerun(u, kept)
    \/ \E u \in UserIds, sb \in SkillBoxes, gb \in GoalBoxes : GenerateClick(u, sb, gb)
    \/ \E out \in ModelOutputs : GenerateReturn(out)
    \/ \E u \in UserIds, i \in ModuleIndexes, p \in SliderValues, kept \in BOOLEAN :
          SetProgress(u, i, p, kept)
    \/ \E u \in UserIds, i \in ModuleIndexes, kept \in BOOLEAN : MarkComplete(u, i, kept)
    \/ \E u \in UserIds, kept \in BOOLEAN : Download(u, kept)
    \/ \E u \in UserIds, kept \in BOOLEAN : GenerateNewPath(u, kept)

Spec == Init /\ [][Next]_vars

\* ------------------------------------------------ the sidebar, run by run
\* A run of main() that a sidebar widget's change starts: the sidebar is
\* built from the widgets, then the main content area is drawn.
SidebarRun(u, kept, boxes, levels, goal_boxes, style) ==
    /\ sidebar' = SidebarOf(boxes, LevelsAfter(levels, boxes, kept), goal_boxes, style)
    /\ LET d == MainArea(u, paths, show_path)
       IN /\ displayed' = d
          /\ progress_module' = SlidersAfter(progress_module, d, kept)
    /\ user_id' = u
    /\ clicked' = NoClick
    /\ download' = NoDownload
    /\ model_output' = NoOutput
    /\ UNCHANGED <<pc, inflight, paths, show_path, store, firestore_cache>>

\* a skill's check box checked or unchecked (line 183)
ToggleSkill(u, label, kept) ==
    /\ ScriptFree
    /\ SidebarRun(u, kept,
                  IF label \in sidebar.skill_boxes
                  THEN sidebar.skill_boxes \ {label} ELSE sidebar.skill_boxes \cup {label},
                  sidebar.level_sliders, sidebar.goal_boxes, sidebar.style_option)
\* a drawn level slider moved (lines 189-195)
MoveLevel(u, label, option, kept) ==
    /\ ScriptFree
    /\ LevelShown(SkillKey(label), sidebar.current_skills)
    /\ SidebarRun(u, kept, sidebar.skill_boxes,
                  [sidebar.level_sliders EXCEPT ![label] = option],
                  sidebar.goal_boxes, sidebar.style_option)
\* a goal's check box checked or unchecked (line 221)
ToggleGoal(u, label, kept) ==
    /\ ScriptFree
    /\ SidebarRun(u, kept, sidebar.skill_boxes, sidebar.level_sliders,
                  IF label \in sidebar.goal_boxes
                  THEN sidebar.goal_boxes \ {label} ELSE sidebar.goal_boxes \cup {label},
                  sidebar.style_option)
\* a learning style selected (lines 227-231)
SelectLearningStyle(u, option, kept) ==
    /\ ScriptFree
    /\ SidebarRun(u, kept, sidebar.skill_boxes, sidebar.level_sliders,
                  sidebar.goal_boxes, option)

SidebarNext ==
    \/ \E u \in UserIds, n \in 1..Len(SkillLabels), kept \in BOOLEAN :
          ToggleSkill(u, SkillLabels[n], kept)
    \/ \E u \in UserIds, n \in 1..Len(SkillLabels), option \in LevelOptions, kept \in BOOLEAN :
          MoveLevel(u, SkillLabels[n], option, kept)
    \/ \E u \in UserIds, n \in 1..Len(GoalLabels), kept \in BOOLEAN :
          ToggleGoal(u, GoalLabels[n], kept)
    \/ \E u \in UserIds, n \in 1..Len(LearningStyles), kept \in BOOLEAN :
          SelectLearningStyle(u, LearningStyles[n], kept)

SidebarSpec == Init /\ [][SidebarNext]_vars

\* ------------------------------------------------------------ the claims
\* what the response of the current run parses to
Parsed == JsonLoads(Strip(model_output.text))
\* a document with the fields display_learning_path subscripts
IsCurriculum(val) == HasKey(val, "title") /\ HasKey(val, "modules")
\* a step in which the model call of a generate action returns
GenerateReturns == pc = "calling" /\ pc' # "calling"
\* path.get('progress', 0) (line 381): the aggregate progress of a document
AggregateProgress(doc) ==
    IF HasKey(doc, "progress") THEN doc.members["progress"] ELSE Num(InitialProgress)

\* C1: a response that parses as JSON but lacks the required field `modules`
\* is a parse failure: no such document is the session's curriculum, is
\* written to the store or is handed to display_learning_path.
C1_MissingFieldRejected ==
    /\ \A u \in UserIds : paths[u].t = "obj" => HasKey(paths[u], "modules")
    /\ \A n \in 1..Len(store) : HasKey(store[n], "modules")
    /\ displayed.path.t = "obj" => HasKey(displayed.path, "modules")

\* C2: a click of the generate button with no skill or no goal selected is
\* rejected before any external call: no model call starts, the store and the
\* session (stored paths, show_path) are unchanged.
C2_EmptyProfileRejected ==
    [][(/\ pc = "idle"
        /\ clicked'.button = "generate"
        /\ (clicked'.current_skills = <<>> \/ clicked'.goals = <<>>))
       => (/\ pc' = "idle"
           /\ inflight' = inflight
           /\ store' = store
           /\ paths' = paths
           /\ show_path' = show_path)]_vars
C2_Witness ==
    /\ pc = "idle"
    /\ clicked.button = "generate"
    /\ clicked.current_skills # <<>>
    /\ clicked.goals = <<>>
    /\ show_path
    /\ displayed.screen = "path"

\* C3: when the model call raises or the response text is not valid JSON,
\* generate_learning_path_ai returns None and the action changes neither the
\* session (stored paths, show_path) nor the store.
C3_FailedGenerationLeavesSession ==
    [][(/\ GenerateReturns
        /\ (model_output'.raises \/ ~JsonLoads(Strip(model_output'.text)).ok))
       => (/\ generate_learning_path_ai(model_output') = None
           /\ pc' = "idle"
           /\ paths' = paths
           /\ show_path' = show_path
           /\ store' = store)]_vars
C3_Witness ==
    /\ pc = "idle"
    /\ clicked.button = "generate"
    /\ model_output # NoOutput
    /\ ~model_output.raises
    /\ ~Parsed.ok
    /\ show_path
    /\ paths[user_id] # None

C5_ExportRoundTrips ==
    download.made =>
        /\ download.ok
        /\ JsonLoads(download.toks) = [ok |-> TRUE, val |-> displayed.path]

\* C6: after "Generate New Path" the session holds no curriculum for the user
\* id and no per-module progress value of the previous curriculum.
C6_NewPathClearsSession ==
    clicked.button = "new_path" =>
        /\ paths[user_id] = None
        /\ \A i \in ModuleIndexes : progress_module[i] = SliderDefault

\* C7 (as stated): the session holds at most one curriculum.
C7_AtMostOneCurriculum == Cardinality({u \in UserIds : paths[u] # None}) <= 1
\* C7 (amended): the session holds at most one curriculum per user id: a
\* curriculum that carries a userId is held under that user id's key, and the
\* page shows the one of the current user id.
C7_OneCurriculumPerUserId ==
    /\ \A u \in UserIds :
          HasKey(paths[u], "userId") => paths[u].members["userId"] = Str(u)
    /\ (pc = "idle" /\ displayed.screen = "path") => displayed.path = paths[user_id]
C7_Witness ==
    /\ \A u \in UserIds : HasKey(paths[u], "userId")
    /\ pc = "idle"
    /\ displayed.screen = "path"

\* C8: "Mark Complete" on module i moves module i to the complete state: its
\* progress becomes 100.
C8_MarkCompleteCompletes ==
    clicked.button = "complete" => progress_module[clicked.module] = SliderMax

\* C9: "Mark Complete" on module i leaves the progress of every other module
\* of the curriculum unchanged, and the aggregate progress of the session's
\* copies and of the stored documents unchanged.
C9_MarkCompleteFrame ==
    [][clicked'.button = "complete"
       => (/\ \A j \in 1..ModuleCount(displayed') :
                 j # clicked'.module => progress_module'[j] = progress_module[j]
           /\ \A u \in UserIds : AggregateProgress(paths'[u]) = AggregateProgress(paths[u])
           /\ Len(store') = Len(store)
           /\ \A n \in 1..Len(store) :
                 AggregateProgress(store'[n]) = AggregateProgress(store[n]))]_vars
C9_Witness ==
    /\ clicked.button = "complete"
    /\ \E j \in 1..ModuleCount(displayed) :
          j # clicked.module /\ progress_module[j] # SliderDefault
    /\ HasKey(displayed.path, "progress")
    /\ store # <<>>

C11_SkillLevelsOfCurrentSkills ==
    LET profile == profile_data(sidebar)
    IN \A k \in DOMAIN profile.skillLevels :
          /\ InList(k, profile.currentSkills)
          /\ profile.skillLevels[k] \in {"beginner", "intermediate", "advanced"}
C11_Witness ==
    /\ sidebar.skill_boxes = {"Python"}
    /\ sidebar.level_sliders["UI/UX Design"] = "Advanced"
    /\ DOMAIN sidebar.skill_levels = {"python"}
    /\ sidebar.skill_levels["python"] = "beginner"
    /\ sidebar.current_skills = <<"python">>
====
